---- MODULE Spec2Model ----
(***************************************************************************)
(* xterm256_colors.utils: calculate_distance_matrix and                    *)
(* find_differentiated_colors, as a state machine over one call.           *)
(*                                                                         *)
(* Distances are floats in the source; here they are naturals, and a mean  *)
(* is the exact rational <<sum, count>> (statistics.mean computes the      *)
(* exact fraction before rounding).  Python's None is the string "None",   *)
(* an optional matrix is a sequence of length 0 (None) or 1.               *)
(***************************************************************************)
EXTENDS Integers, Sequences, FiniteSets, TLC

\* ---------------------------------------------------------------- bounds
MaxDist == 2      \* external distances are drawn from 0..MaxDist
MaxSkew == 1      \* delta_e(b, a) - delta_e(a, b) is drawn from 0..MaxSkew
MaxN == 4         \* n is drawn from -1..MaxN

\* ---------------------------------------------------------------- values
None == "None"
NegInf == <<FALSE, 0>>                 \* float('-Inf')
Finite(x) == <<TRUE, x>>

ColorOrder == <<"A", "B", "C", "D">>   \* a fixed naming of four colours
Colors == {"A", "B", "C"}              \* colours of the enumerated palettes
Ord(c) == CHOOSE i \in 1..Len(ColorOrder) : ColorOrder[i] = c

Range(s) == {s[i] : i \in 1..Len(s)}
IsUnique(s) == \A i, j \in 1..Len(s) : i # j => s[i] # s[j]

\* Palettes of unique colours, in every iteration order.
Palettes ==
    {s \in UNION {[1..k -> Colors] : k \in 0..Cardinality(Colors)} : IsUnique(s)}

OrderedPairs(S) == {p \in S \X S : p[1] # p[2]}
UnorderedPairs(S) == {p \in S \X S : Ord(p[1]) < Ord(p[2])}
Canon(p) == IF Ord(p[1]) < Ord(p[2]) THEN p ELSE <<p[2], p[1]>>

\* The external distance functions a call can meet: non-negative, and
\* symmetric up to a discrepancy of skew in one direction.
DeltaFrom(S, base, skew) ==
    [p \in OrderedPairs(S) |->
        base[Canon(p)] + (IF Ord(p[1]) > Ord(p[2]) THEN skew ELSE 0)]
DeltaFns(S) ==
    {DeltaFrom(S, base, skew) :
        base \in [UnorderedPairs(S) -> 0..MaxDist], skew \in 0..MaxSkew}

\* The palette and distances of the worked example:
\* AB=10, AC=1, AD=5, BC=6, BD=2, CD=8.
ScenarioPalette == ColorOrder
ScenarioBase ==
    [p \in UnorderedPairs(Range(ScenarioPalette)) |->
        CASE p = <<"A", "B">> -> 10
          [] p = <<"A", "C">> -> 1
          [] p = <<"A", "D">> -> 5
          [] p = <<"B", "C">> -> 6
          [] p = <<"B", "D">> -> 2
          [] p = <<"C", "D">> -> 8]
ScenarioDelta == DeltaFrom(Range(ScenarioPalette), ScenarioBase, 0)
ScenarioMinDist == Finite(9)

NValues == (-1)..MaxN

\* The function the caller invokes.
Find == "find_differentiated_colors"
Calc == "calculate_distance_matrix"
MinDists == {NegInf} \cup {Finite(d) : d \in 0..(MaxDist + 1)}

VARIABLES
    entry,          \* the function called: Find or Calc
    is_sequence,    \* isinstance(colors, Sequence), for colors as passed
    consumed,       \* colors as passed, a one-shot iterable, was iterated
    HAS_COLORMATH,  \* _compat.HAS_COLORMATH
    delta_e,        \* colormath's delta_e_cie2000 on the palette's colours
    colors,         \* argument: the palette, a sequence
    n,              \* argument
    min_dist,       \* argument
    dist_mat,       \* argument / local: <<>> is None, <<m>> a matrix m
    best_pair,      \* local: <<>> or <<a, b>>
    max_dist,       \* local
    subset,         \* local, and the returned value
    max_avg_dist,   \* local of the while body: <<sum, count>>
    v_avg_best,     \* local of the while body
    rejected,       \* the candidates the round in hand has skipped with
                    \* is_below_min_dist set
    pc,             \* "call", "seed", "while", "scan", "done", "raised",
                    \* "matrix" (calculate_distance_matrix returned)
    err,            \* the exception raised, or None
    cls,            \* colors.py: the class constructed, XtermFore or XtermBack
    self,           \* the XtermCodes instance: its dicts and attributes
    position,       \* XtermCodes.__init__: items of the table iterated so far
    objects,        \* objects allocated so far; an object's id is its rank
    color,          \* the colour looked at: <<>> or <<colour>>
    swatch,         \* that colour's cached swatch: <<>> or <<swatch>>
    expected,       \* a newly constructed swatch: <<>> or <<swatch>>
    actual,         \* the value read from color.swatch: <<>> or <<swatch>>
    step            \* "init", "constructed", "look"

findVars == <<entry, is_sequence, consumed, HAS_COLORMATH, delta_e, colors, n,
              min_dist, dist_mat, best_pair, max_dist, subset, max_avg_dist,
              v_avg_best, rejected, pc, err>>

codesVars == <<cls, self, position, objects, color, swatch, expected, actual,
               step>>

vars == <<findVars, codesVars>>

args == <<entry, is_sequence, HAS_COLORMATH, delta_e, colors, n, min_dist>>

\* ------------------------------------------------ calculate_distance_matrix
\* dist_mat[a][b] = d on a defaultdict(dict): the row is created on demand.
SetItem(m, a, b, d) ==
    LET row == IF a \in DOMAIN m THEN m[a] ELSE <<>>
        newrow == [x \in (DOMAIN row) \cup {b} |-> IF x = b THEN d ELSE row[x]]
    IN  [x \in (DOMAIN m) \cup {a} |-> IF x = a THEN newrow ELSE m[x]]

\* A faulty variant of StorePair: the backward direction is computed on its own.
StorePairRecomputed(m, f, a, b) ==
    SetItem(SetItem(m, a, b, f[<<a, b>>]), b, a, f[<<b, a>>])

\* A faulty variant of StorePair: only dist_mat[a][b] is stored.
StorePairForwardOnly(m, f, a, b) == SetItem(m, a, b, f[<<a, b>>])

\* dist = delta_e(a, b); dist_mat[a][b] = dist_mat[b][a] = dist
StorePair(m, f, a, b) ==
    LET dist == f[<<a, b>>]
    IN  SetItem(SetItem(m, a, b, dist), b, a, dist)

RECURSIVE MatrixLoop(_, _, _, _, _)
MatrixLoop(cs, f, i, j, m) ==
    IF i > Len(cs) THEN m
    ELSE IF j > Len(cs) THEN MatrixLoop(cs, f, i + 1, i + 2, m)
    ELSE MatrixLoop(cs, f, i, j + 1, StorePair(m, f, cs[i], cs[j]))

calculate_distance_matrix(cs, f) == MatrixLoop(cs, f, 1, 2, <<>>)

HasEntry(m, a, b) == a \in DOMAIN m /\ b \in DOMAIN m[a]

\* The keys <<a, b>> for which m[a][b] exists.
Entries(m) == UNION {{<<a, b>> : b \in DOMAIN m[a]} : a \in DOMAIN m}

\* dist_mat[a] on a defaultdict(dict): reading the row of a missing key
\* inserts an empty row.  The matrix after the rows in R have been read.
ReadRows(m, R) ==
    [x \in (DOMAIN m) \cup R |-> IF x \in DOMAIN m THEN m[x] ELSE <<>>]

\* --------------------------------------------------------------- seed phase
\* A faulty variant of SeedUpdate: max_dist is never raised.
SeedUpdateKeepsMax(acc, a, b, dist) ==
    IF dist > acc.max_dist
        THEN [best_pair |-> <<a, b>>, max_dist |-> acc.max_dist]
        ELSE acc

\* if (dist := dist_mat[a][b]) > max_dist: max_dist = dist; best_pair = (a, b)
SeedUpdate(acc, a, b, dist) ==
    IF dist > acc.max_dist
        THEN [best_pair |-> <<a, b>>, max_dist |-> dist]
        ELSE acc

RECURSIVE SeedLoop(_, _, _, _, _)
SeedLoop(cs, m, i, j, acc) ==
    IF i > Len(cs) THEN acc
    ELSE IF j > Len(cs) THEN SeedLoop(cs, m, i + 1, i + 2, acc)
    ELSE SeedLoop(cs, m, i, j + 1,
                  SeedUpdate(acc, cs[i], cs[j], m[cs[i]][cs[j]]))

SeedScan(cs, m) == SeedLoop(cs, m, 1, 2, [best_pair |-> <<>>, max_dist |-> 0])

\* A faulty variant of SeedRowsRead: row = dist_mat[a] is read once per a,
\* ahead of the inner loop.
SeedRowsReadHoisted(cs) == Range(cs)

\* The rows dist_mat[a] read by the seed loops: a has some b after it.
SeedRowsRead(cs) == {cs[i] : i \in 1..(Len(cs) - 1)}

\* ------------------------------------------------------------- growth phase
RECURSIVE SumDists(_, _, _)
SumDists(m, v, S) ==
    IF S = {} THEN 0
    ELSE LET vp == CHOOSE x \in S : TRUE
         IN  m[v][vp] + SumDists(m, v, S \ {vp})

\* A faulty variant of Below: a distance equal to min_dist counts as below.
BelowOrEqual(dist, md) == md[1] /\ dist <= md[2]

\* dist < min_dist
Below(dist, md) == md[1] /\ dist < md[2]

\* is_below_min_dist after the loop over the subset
IsBelowMinDist(m, v, S, md) == \E vp \in S : Below(m[v][vp], md)

\* statistics.mean(dists) as the exact fraction <<sum, count>>; of no data
\* it raises StatisticsError.
Mean(m, v, S) == <<SumDists(m, v, S), Cardinality(S)>>
MeanRaises(S) == S = {}

\* a > b for fractions with positive denominators
Greater(a, b) == a[1] * b[2] > b[1] * a[2]

\* The for loop over colors in one round: the candidate kept, and its mean.
RECURSIVE ScanLoop(_, _, _, _, _, _)
ScanLoop(cs, m, S, md, k, acc) ==
    IF k > Len(cs) THEN acc
    ELSE LET v == cs[k] IN
         IF v \in S THEN ScanLoop(cs, m, S, md, k + 1, acc)
         ELSE IF IsBelowMinDist(m, v, S, md)
             THEN ScanLoop(cs, m, S, md, k + 1, acc)
         ELSE IF Greater(Mean(m, v, S), acc.max_avg_dist)
             THEN ScanLoop(cs, m, S, md, k + 1,
                           [v_avg_best |-> v, max_avg_dist |-> Mean(m, v, S)])
         ELSE ScanLoop(cs, m, S, md, k + 1, acc)

\* The candidates for which "if is_below_min_dist: continue" is taken in one
\* round of the for loop over colors.
Skipped(cs, m, S, md) ==
    {cs[k] : k \in {i \in 1..Len(cs) :
                       cs[i] \notin S /\ IsBelowMinDist(m, cs[i], S, md)}}

\* Some candidate reaches statistics.mean with no distances collected.
ScanRaises(cs, m, S, md) ==
    \E k \in 1..Len(cs) :
        cs[k] \notin S /\ ~IsBelowMinDist(m, cs[k], S, md) /\ MeanRaises(S)

\* The rows dist_mat[v] read in one round: v is outside the subset and the
\* subset has a member to measure it against.
ScanRowsRead(cs, S) == {v \in Range(cs) \ S : S # {}}

\* A faulty variant of AddBest: the guard is dropped.
AddBestUnguarded(S, v) == S \cup {v}

\* if v_avg_best: subset.add(v_avg_best)   (a colour is a non-empty str)
AddBest(S, v) == IF v # None THEN S \cup {v} ELSE S

\* -------------------------------------------------------------------- Init
InitLocals ==
    /\ best_pair = <<>>
    /\ max_dist = 0
    /\ subset = {}
    /\ max_avg_dist = <<0, 1>>
    /\ v_avg_best = None
    /\ rejected = {}
    /\ pc = "call"
    /\ err = None

\* dist_mat is left out (None) or was built beforehand over the palette.
InitMatrix ==
    dist_mat \in {<<>>, <<calculate_distance_matrix(colors, delta_e)>>}

GeneralInit ==
    /\ colors \in Palettes
    /\ delta_e \in DeltaFns(Range(colors))
    /\ min_dist \in MinDists

ScenarioInit ==
    /\ colors = ScenarioPalette
    /\ delta_e = ScenarioDelta
    /\ min_dist \in {NegInf, ScenarioMinDist}

\* Four colours, so that a growth round has two candidates: every pair is
\* either indistinguishable (0) or MaxDist apart.
FourColourInit ==
    /\ colors = ColorOrder
    /\ delta_e \in {DeltaFrom(Range(ColorOrder), base, 0) :
                        base \in [UnorderedPairs(Range(ColorOrder)) -> {0, MaxDist}]}
    /\ min_dist \in MinDists

\* A call of find_differentiated_colors(colors, n, dist_mat, min_dist).
FindInit ==
    /\ entry = Find
    /\ n \in NValues
    /\ (GeneralInit \/ ScenarioInit \/ FourColourInit)
    /\ InitMatrix

\* A call of calculate_distance_matrix(colors): n and min_dist play no part.
CalcInit ==
    /\ entry = Calc
    /\ n = 0
    /\ GeneralInit /\ min_dist = NegInf
    /\ dist_mat = <<>>

\* self.all_colors = {} and so on; attributes is what setattr has set
EmptyCodes ==
    [all_colors |-> <<>>, bright_colors |-> <<>>, dark_colors |-> <<>>,
     by_code |-> <<>>, attributes |-> <<>>, differentiated_colors |-> <<>>]

\* colors.py before XtermFore() or XtermBack() is called
CodesFresh ==
    /\ self = EmptyCodes
    /\ position = 0
    /\ objects = 0
    /\ color = <<>> /\ swatch = <<>> /\ expected = <<>> /\ actual = <<>>
    /\ step = "init"

\* utils.py does not use colors.py: the module rests.
CodesIdle == cls = "XtermFore" /\ CodesFresh

Init ==
    /\ HAS_COLORMATH \in BOOLEAN
    /\ is_sequence \in BOOLEAN
    /\ consumed = FALSE
    /\ (FindInit \/ CalcInit)
    /\ InitLocals
    /\ CodesIdle

\* ----------------------------------------------------------------- actions
\* if not isinstance(colors, Sequence): colors = tuple(colors)
Materialized == ~is_sequence

\* colormath is missing: colors.py imports LabColor, convert_color and
\* sRGBColor from _compat, which defines them only when HAS_COLORMATH.  The
\* import of the package fails, with or without a matrix at hand, and no
\* function of utils.py is ever called.
RaiseImportError ==
    /\ pc = "call" /\ ~HAS_COLORMATH
    /\ pc' = "raised" /\ err' = "ImportError"
    /\ UNCHANGED <<args, consumed, dist_mat, best_pair, max_dist, subset,
                   max_avg_dist, v_avg_best, rejected>>
    /\ UNCHANGED codesVars

\* No matrix was passed: calculate_distance_matrix(colors) runs, for
\* find_differentiated_colors (dist_mat = ...) or for the caller (return).
\* require_colormath() in its wrapper finds HAS_COLORMATH true.
BuildMatrix ==
    /\ pc = "call" /\ dist_mat = <<>> /\ HAS_COLORMATH
    /\ consumed' = Materialized
    /\ dist_mat' = <<calculate_distance_matrix(colors, delta_e)>>
    /\ pc' = IF entry = Find THEN "seed" ELSE "matrix"
    /\ UNCHANGED <<args, best_pair, max_dist, subset, max_avg_dist,
                   v_avg_best, rejected, err>>
    /\ UNCHANGED codesVars

\* dist_mat was supplied
UseMatrix ==
    /\ pc = "call" /\ dist_mat # <<>> /\ HAS_COLORMATH
    /\ consumed' = Materialized
    /\ pc' = "seed"
    /\ UNCHANGED <<args, dist_mat, best_pair, max_dist, subset,
                   max_avg_dist, v_avg_best, rejected, err>>
    /\ UNCHANGED codesVars

\* The scan for the best pair, and subset = {*best_pair}
SeedPhase ==
    /\ pc = "seed"
    /\ LET r == SeedScan(colors, dist_mat[1]) IN
        /\ best_pair' = r.best_pair
        /\ max_dist' = r.max_dist
        /\ subset' = Range(r.best_pair)
    /\ dist_mat' = <<ReadRows(dist_mat[1], SeedRowsRead(colors))>>
    /\ pc' = "while"
    /\ UNCHANGED <<args, consumed, max_avg_dist, v_avg_best, rejected, err>>
    /\ UNCHANGED codesVars

\* while len(subset) < n: the test holds, the round's locals are reset
EnterRound ==
    /\ pc = "while" /\ Cardinality(subset) < n
    /\ max_avg_dist' = <<0, 1>>
    /\ v_avg_best' = None
    /\ rejected' = {}
    /\ pc' = "scan"
    /\ UNCHANGED <<args, consumed, dist_mat, best_pair, max_dist, subset, err>>
    /\ UNCHANGED codesVars

\* while len(subset) < n: the test fails; return subset
Return ==
    /\ pc = "while" /\ ~(Cardinality(subset) < n)
    /\ pc' = "done"
    /\ UNCHANGED <<args, consumed, dist_mat, best_pair, max_dist, subset,
                   max_avg_dist, v_avg_best, rejected, err>>
    /\ UNCHANGED codesVars

\* The body of the while loop when statistics.mean gets no data.
RaiseStatisticsError ==
    /\ pc = "scan" /\ ScanRaises(colors, dist_mat[1], subset, min_dist)
    /\ pc' = "raised" /\ err' = "StatisticsError"
    /\ UNCHANGED <<args, consumed, dist_mat, best_pair, max_dist, subset,
                   max_avg_dist, v_avg_best, rejected>>
    /\ UNCHANGED codesVars

\* The body of the while loop: the for loop, then the guarded add.
GrowthRound ==
    /\ pc = "scan" /\ ~ScanRaises(colors, dist_mat[1], subset, min_dist)
    /\ LET r == ScanLoop(colors, dist_mat[1], subset, min_dist, 1,
                         [v_avg_best |-> v_avg_best,
                          max_avg_dist |-> max_avg_dist]) IN
        /\ v_avg_best' = r.v_avg_best
        /\ max_avg_dist' = r.max_avg_dist
        /\ subset' = AddBest(subset, r.v_avg_best)
    /\ rejected' = Skipped(colors, dist_mat[1], subset, min_dist)
    /\ dist_mat' = <<ReadRows(dist_mat[1], ScanRowsRead(colors, subset))>>
    /\ pc' = "while"
    /\ UNCHANGED <<args, consumed, best_pair, max_dist, err>>
    /\ UNCHANGED codesVars

Next ==
    \/ RaiseImportError
    \/ BuildMatrix
    \/ UseMatrix
    \/ SeedPhase
    \/ EnterRound
    \/ Return
    \/ RaiseStatisticsError
    \/ GrowthRound

Spec == Init /\ [][Next]_vars

\* The calls that are followed to their end: find_differentiated_colors on
\* a sequence, over the enumerated palettes and the worked example.
FairInit ==
    /\ Init
    /\ entry = Find /\ is_sequence
    /\ (Len(colors) < Len(ColorOrder) \/ delta_e = ScenarioDelta)

\* The interpreter keeps running the call: no step is postponed forever.
FairSpec == FairInit /\ [][Next]_vars /\ WF_vars(Next)

\* The caller, holding a matrix (returned by calculate_distance_matrix or
\* left from an earlier call), calls find_differentiated_colors with the
\* same palette and that matrix, and any n and min_dist.
CallAgain ==
    /\ pc \in {"matrix", "done", "raised"} /\ dist_mat # <<>>
    /\ entry' = Find
    /\ n' \in NValues
    /\ min_dist' \in MinDists \cup {min_dist}
    /\ consumed' = FALSE
    /\ best_pair' = <<>> /\ max_dist' = 0 /\ subset' = {}
    /\ max_avg_dist' = <<0, 1>> /\ v_avg_best' = None /\ rejected' = {}
    /\ pc' = "call" /\ err' = None
    /\ UNCHANGED <<is_sequence, HAS_COLORMATH, delta_e, colors, dist_mat>>
    /\ UNCHANGED codesVars

ReuseNext == Next \/ CallAgain

\* Any number of calls, one after the other, over one matrix.
ReuseSpec == Init /\ [][ReuseNext]_vars

TypeOK ==
    /\ pc \in {"call", "seed", "while", "scan", "done", "raised", "matrix"}
    /\ err \in {None, "ImportError", "StatisticsError"}
    /\ n \in NValues

\* --------------------------------------------------------------- properties
Min(a, b) == IF a < b THEN a ELSE b

Returned == pc = "done"
Ended == pc \in {"done", "raised"}
\* The package was imported, so the call had a matrix to work with
\* (supplied, or built with colormath).
MatrixAvailable == HAS_COLORMATH
Candidates == Range(colors) \ subset

\* The largest distance over all pairs of the palette (0 if there is none).
PairDists(cs, m) ==
    {m[cs[i]][cs[j]] : <<i, j>> \in {q \in (1..Len(cs)) \X (1..Len(cs)) : q[1] < q[2]}}
MaxPairDist(cs, m) ==
    IF PairDists(cs, m) = {} THEN 0
    ELSE CHOOSE d \in PairDists(cs, m) : \A e \in PairDists(cs, m) : e <= d

\* C1: for n >= 0 the returned subset has at most min(n, |colors|) elements.
C1_SizeBound ==
    (Returned /\ n >= 0) => Cardinality(subset) <= Min(n, Len(colors))

\* C2: a growth round in which every colour outside the subset is rejected
\* by min_dist is followed by the return of the subset, with no error.
AllRejected ==
    /\ pc = "scan"
    /\ Candidates # {}
    /\ \A v \in Candidates : IsBelowMinDist(dist_mat[1], v, subset, min_dist)
C2_AllRejectedReturns == AllRejected ~> Returned

\* C3: with the default min_dist and a palette of two or more colours, a
\* growth round with no colour left outside the subset is followed by the
\* return of a subset of at most |colors| colours.
NoCandidateLeft ==
    /\ pc = "scan"
    /\ Len(colors) >= 2
    /\ min_dist = NegInf
    /\ Candidates = {}
C3_ExhaustedPaletteReturns ==
    NoCandidateLeft ~> (Returned /\ Cardinality(subset) <= Len(colors))

\* C4: a call with a palette of exactly one colour and n = 3 ends by
\* returning the set of that colour, with no error.
C4_SingleColour ==
    (Len(colors) = 1 /\ n = 3 /\ MatrixAvailable /\ Ended)
        => (Returned /\ subset = Range(colors))

\* C5: every two distinct colours of the returned subset are at least
\* min_dist apart in the distance matrix.
C5_PairwiseMinDist ==
    Returned =>
        \A a, b \in subset :
            a # b => ~Below(dist_mat[1][a][b], min_dist)

\* C6: with 2 <= n <= |colors| and the default min_dist, the call ends by
\* returning exactly n colours.
C6_ExactlyN ==
    (2 <= n /\ n <= Len(colors) /\ min_dist = NegInf /\ MatrixAvailable /\ Ended)
        => (Returned /\ Cardinality(subset) = n)

\* C7: a returned subset of two or more colours holds both colours of a
\* pair whose distance is the maximum over all pairs of the palette.
C7_SeedOptimality ==
    (Returned /\ Cardinality(subset) >= 2) =>
        \E a, b \in subset :
            /\ a # b
            /\ dist_mat[1][a][b] = MaxPairDist(colors, dist_mat[1])

\* A subset of two colours was returned from a palette of three whose
\* pairs are not all equally far apart.
C7_Witness ==
    /\ Returned
    /\ Cardinality(subset) = 2
    /\ Len(colors) = 3
    /\ Cardinality(PairDists(colors, dist_mat[1])) >= 2

\* C8: at every step and in the returned value, every colour of the subset
\* is a member of the palette.
C8_Membership == subset \subseteq Range(colors)

\* A growth round has added a colour, and a colour of the palette is still
\* outside the subset.
C8_Witness ==
    /\ pc = "while"
    /\ v_avg_best # None
    /\ Cardinality(subset) = 3
    /\ Candidates # {}

\* C9: a call with a negative n, or with an empty palette and a non-zero n,
\* does not return a subset.
InvalidArguments == n < 0 \/ (Len(colors) = 0 /\ n # 0)
C9_InvalidArgumentRejected == InvalidArguments => ~Returned

\* C10: in the matrix built over the palette, matrix[a][b] and matrix[b][a]
\* are the same distance for all a # b of the palette.
C10_Symmetry ==
    dist_mat # <<>> =>
        \A a, b \in Range(colors) :
            a # b =>
                /\ HasEntry(dist_mat[1], a, b)
                /\ HasEntry(dist_mat[1], b, a)
                /\ dist_mat[1][a][b] = dist_mat[1][b][a]

\* calculate_distance_matrix has run in the call, over three colours, with
\* an external distance that differs between the two directions of a pair.
C10_Witness ==
    /\ pc = "seed"
    /\ HAS_COLORMATH
    /\ Len(colors) = 3
    /\ \E a, b \in Range(colors) :
            a # b /\ delta_e[<<a, b>>] # delta_e[<<b, a>>]

\* C11: the matrix built over a palette of unique colours has an entry
\* matrix[a][b] for exactly the ordered pairs a # b of the palette: none is
\* missing and there is no matrix[a][a].
C11_ExactEntries ==
    dist_mat # <<>> => Entries(dist_mat[1]) = OrderedPairs(Range(colors))

\* calculate_distance_matrix has returned a matrix over three colours: it
\* has six entries.
C11_Witness ==
    /\ pc = "matrix"
    /\ Len(colors) = 3
    /\ Cardinality(Entries(dist_mat[1])) = 6

\* C12: when colormath is absent and no matrix was passed, the call ends
\* with the RuntimeError of require_colormath, no matrix exists and the
\* palette as passed has not been consumed.
NoCapability == ~HAS_COLORMATH /\ dist_mat = <<>> /\ pc # "call"
C12_RaisedBeforePaletteConsumed ==
    /\ (~HAS_COLORMATH /\ entry = Calc) => dist_mat = <<>>
    /\ NoCapability => (pc = "raised" /\ err = "RuntimeError" /\ ~consumed)

\* C14: once the matrix is built, no step of any find_differentiated_colors
\* call adds, removes or alters an entry or a row of it, nor changes the
\* palette.
C14_MatrixFrame ==
    [][dist_mat # <<>> => (dist_mat' = dist_mat /\ colors' = colors)]_vars

\* A call that was handed the matrix has read it in the seed phase and in a
\* growth round and has returned; the matrix is still the one that
\* calculate_distance_matrix builds.
C14_Witness ==
    /\ Returned
    /\ v_avg_best # None
    /\ Cardinality(subset) = 3
    /\ dist_mat = <<calculate_distance_matrix(colors, delta_e)>>

\* The colours outside the subset that min_dist does not reject, and the
\* mean distance of one of them to the subset's members.
EligibleSet ==
    {v \in Candidates : ~IsBelowMinDist(dist_mat[1], v, subset, min_dist)}
MeanOf(v) == Mean(dist_mat[1], v, subset)
\* The eligible colours of the highest mean.
BestEligible ==
    {v \in EligibleSet : \A w \in EligibleSet : ~Greater(MeanOf(w), MeanOf(v))}
PaletteIndex(v) == CHOOSE i \in 1..Len(colors) : colors[i] = v
Earliest(S) == CHOOSE v \in S : \A w \in S : PaletteIndex(v) <= PaletteIndex(w)

\* C18: a growth round (over a subset with members) in which some colour is
\* eligible adds exactly one colour, an eligible one of the highest mean,
\* also when that mean is 0.
C18_RoundAddsBestEligible ==
    [][(pc = "scan" /\ subset # {} /\ EligibleSet # {}) =>
            \E v \in BestEligible : subset' = subset \cup {v}]_vars

\* The first pair, in scan order (i < j, outer index first), whose distance
\* is the maximum over all pairs.
PairIndices(cs) == {q \in (1..Len(cs)) \X (1..Len(cs)) : q[1] < q[2]}
ScansBefore(p, q) == p[1] < q[1] \/ (p[1] = q[1] /\ p[2] <= q[2])
FirstMaxPair(cs, m) ==
    LET best == {q \in PairIndices(cs) :
                    m[cs[q[1]]][cs[q[2]]] = MaxPairDist(cs, m)}
        q == CHOOSE x \in best : \A y \in best : ScansBefore(x, y)
    IN  <<cs[q[1]], cs[q[2]]>>
SeedPhaseDone ==
    pc \in {"while", "scan", "done"} \/ (pc = "raised" /\ err = "StatisticsError")

\* C19: after the seed phase of a palette with a pair, best_pair is the
\* first pair in scan order among the pairs of maximum distance, and it is
\* in the subset.
C19_SeedTieBreak ==
    (SeedPhaseDone /\ Len(colors) >= 2) =>
        /\ best_pair = FirstMaxPair(colors, dist_mat[1])
        /\ Range(best_pair) \subseteq subset

\* C20: a growth round in which several eligible colours tie for the highest
\* mean adds the earliest of them in palette order; and the worked example
\* with n = 3 returns {A, B, C}.
ScenarioCall ==
    /\ colors = ScenarioPalette
    /\ dist_mat = <<calculate_distance_matrix(ScenarioPalette, ScenarioDelta)>>
    /\ n = 3 /\ min_dist = NegInf
C20_TieBreakEarliest ==
    /\ []((ScenarioCall /\ Ended) => (Returned /\ subset = {"A", "B", "C"}))
    /\ [][(pc = "scan" /\ subset # {} /\ Cardinality(BestEligible) >= 2) =>
            subset' = subset \cup {Earliest(BestEligible)}]_vars

\* C21: a growth round rejects a candidate exactly when one of its distances
\* to a member of the subset is strictly less than min_dist; a candidate
\* whose smallest distance equals min_dist is not rejected, and with
\* min_dist = -Inf no candidate is rejected.
C21_RejectedExactly ==
    [][(pc = "scan" /\ pc' = "while") =>
          /\ rejected' =
                {v \in Range(colors) \ subset :
                    /\ min_dist # NegInf
                    /\ \E vp \in subset : dist_mat[1][v][vp] < min_dist[2]}
          /\ (min_dist = NegInf => rejected' = {})]_vars

\* A round has rejected one candidate and added another whose smallest
\* distance to the subset is min_dist itself.
C21_Witness ==
    /\ pc = "while" /\ min_dist # NegInf
    /\ rejected # {}
    /\ v_avg_best # None /\ v_avg_best \in subset
    /\ \E vp \in subset \ {v_avg_best} :
            dist_mat[1][v_avg_best][vp] = min_dist[2]
    /\ \A vp \in subset \ {v_avg_best} :
            dist_mat[1][v_avg_best][vp] >= min_dist[2]

\* ---------------------------------------------------------------- colors.py
\* name -> (code, rgb_hex_str), in the order the dict is written; a string
\* of hex digits is the sequence of its characters.
XTERM_256_COLOR_MAP ==
    <<
       <<"BLACK", <<0, <<"#", "0", "0", "0", "0", "0", "0">>>>>>,
       <<"MAROON", <<1, <<"#", "8", "0", "0", "0", "0", "0">>>>>>,
       <<"GREEN", <<2, <<"#", "0", "0", "8", "0", "0", "0">>>>>>,
       <<"OLIVE", <<3, <<"#", "8", "0", "8", "0", "0", "0">>>>>>,
       <<"NAVY", <<4, <<"#", "0", "0", "0", "0", "8", "0">>>>>>,
       <<"PURPLE", <<5, <<"#", "8", "0", "0", "0", "8", "0">>>>>>,
       <<"TEAL", <<6, <<"#", "0", "0", "8", "0", "8", "0">>>>>>,
       <<"SILVER", <<7, <<"#", "c", "0", "c", "0", "c", "0">>>>>>,
       <<"GREY", <<8, <<"#", "8", "0", "8", "0", "8", "0">>>>>>,
       <<"RED", <<9, <<"#", "f", "f", "0", "0", "0", "0">>>>>>,
       <<"LIME", <<10, <<"#", "0", "0", "f", "f", "0", "0">>>>>>,
       <<"YELLOW", <<11, <<"#", "f", "f", "f", "f", "0", "0">>>>>>,
       <<"BLUE", <<12, <<"#", "0", "0", "0", "0", "f", "f">>>>>>,
       <<"FUCHSIA", <<13, <<"#", "f", "f", "0", "0", "f", "f">>>>>>,
       <<"AQUA", <<14, <<"#", "0", "0", "f", "f", "f", "f">>>>>>,
       <<"WHITE", <<15, <<"#", "f", "f", "f", "f", "f", "f">>>>>>,
       <<"GREY0", <<16, <<"#", "0", "0", "0", "0", "0", "0">>>>>>,
       <<"NAVYBLUE", <<17, <<"#", "0", "0", "0", "0", "5", "f">>>>>>,
       <<"DARKBLUE", <<18, <<"#", "0", "0", "0", "0", "8", "7">>>>>>,
       <<"BLUE3", <<19, <<"#", "0", "0", "0", "0", "a", "f">>>>>>,
       <<"BLUE3_1", <<20, <<"#", "0", "0", "0", "0", "d", "7">>>>>>,
       <<"BLUE1", <<21, <<"#", "0", "0", "0", "0", "f", "f">>>>>>,
       <<"DARKGREEN", <<22, <<"#", "0", "0", "5", "f", "0", "0">>>>>>,
       <<"DEEPSKYBLUE4", <<23, <<"#", "0", "0", "5", "f", "5", "f">>>>>>,
       <<"DEEPSKYBLUE4_1", <<24, <<"#", "0", "0", "5", "f", "8", "7">>>>>>,
       <<"DEEPSKYBLUE4_2", <<25, <<"#", "0", "0", "5", "f", "a", "f">>>>>>,
       <<"DODGERBLUE3", <<26, <<"#", "0", "0", "5", "f", "d", "7">>>>>>,
       <<"DODGERBLUE2", <<27, <<"#", "0", "0", "5", "f", "f", "f">>>>>>,
       <<"GREEN4", <<28, <<"#", "0", "0", "8", "7", "0", "0">>>>>>,
       <<"SPRINGGREEN4", <<29, <<"#", "0", "0", "8", "7", "5", "f">>>>>>,
       <<"TURQUOISE4", <<30, <<"#", "0", "0", "8", "7", "8", "7">>>>>>,
       <<"DEEPSKYBLUE3", <<31, <<"#", "0", "0", "8", "7", "a", "f">>>>>>,
       <<"DEEPSKYBLUE3_1", <<32, <<"#", "0", "0", "8", "7", "d", "7">>>>>>,
       <<"DODGERBLUE1", <<33, <<"#", "0", "0", "8", "7", "f", "f">>>>>>,
       <<"GREEN3", <<34, <<"#", "0", "0", "a", "f", "0", "0">>>>>>,
       <<"SPRINGGREEN3", <<35, <<"#", "0", "0", "a", "f", "5", "f">>>>>>,
       <<"DARKCYAN", <<36, <<"#", "0", "0", "a", "f", "8", "7">>>>>>,
       <<"LIGHTSEAGREEN", <<37, <<"#", "0", "0", "a", "f", "a", "f">>>>>>,
       <<"DEEPSKYBLUE2", <<38, <<"#", "0", "0", "a", "f", "d", "7">>>>>>,
       <<"DEEPSKYBLUE1", <<39, <<"#", "0", "0", "a", "f", "f", "f">>>>>>,
       <<"GREEN3_1", <<40, <<"#", "0", "0", "d", "7", "0", "0">>>>>>,
       <<"SPRINGGREEN3_1", <<41, <<"#", "0", "0", "d", "7", "5", "f">>>>>>,
       <<"SPRINGGREEN2", <<42, <<"#", "0", "0", "d", "7", "8", "7">>>>>>,
       <<"CYAN3", <<43, <<"#", "0", "0", "d", "7", "a", "f">>>>>>,
       <<"DARKTURQUOISE", <<44, <<"#", "0", "0", "d", "7", "d", "7">>>>>>,
       <<"TURQUOISE2", <<45, <<"#", "0", "0", "d", "7", "f", "f">>>>>>,
       <<"GREEN1", <<46, <<"#", "0", "0", "f", "f", "0", "0">>>>>>,
       <<"SPRINGGREEN2_1", <<47, <<"#", "0", "0", "f", "f", "5", "f">>>>>>,
       <<"SPRINGGREEN1", <<48, <<"#", "0", "0", "f", "f", "8", "7">>>>>>,
       <<"MEDIUMSPRINGGREEN", <<49, <<"#", "0", "0", "f", "f", "a", "f">>>>>>,
       <<"CYAN2", <<50, <<"#", "0", "0", "f", "f", "d", "7">>>>>>,
       <<"CYAN1", <<51, <<"#", "0", "0", "f", "f", "f", "f">>>>>>,
       <<"DARKRED", <<52, <<"#", "5", "f", "0", "0", "0", "0">>>>>>,
       <<"DEEPPINK4", <<53, <<"#", "5", "f", "0", "0", "5", "f">>>>>>,
       <<"PURPLE4", <<54, <<"#", "5", "f", "0", "0", "8", "7">>>>>>,
       <<"PURPLE4_1", <<55, <<"#", "5", "f", "0", "0", "a", "f">>>>>>,
       <<"PURPLE3", <<56, <<"#", "5", "f", "0", "0", "d", "7">>>>>>,
       <<"BLUEVIOLET", <<57, <<"#", "5", "f", "0", "0", "f", "f">>>>>>,
       <<"ORANGE4", <<58, <<"#", "5", "f", "5", "f", "0", "0">>>>>>,
       <<"GREY37", <<59, <<"#", "5", "f", "5", "f", "5", "f">>>>>>,
       <<"MEDIUMPURPLE4", <<60, <<"#", "5", "f", "5", "f", "8", "7">>>>>>,
       <<"SLATEBLUE3", <<61, <<"#", "5", "f", "5", "f", "a", "f">>>>>>,
       <<"SLATEBLUE3_1", <<62, <<"#", "5", "f", "5", "f", "d", "7">>>>>>,
       <<"ROYALBLUE1", <<63, <<"#", "5", "f", "5", "f", "f", "f">>>>>>,
       <<"CHARTREUSE4", <<64, <<"#", "5", "f", "8", "7", "0", "0">>>>>>,
       <<"DARKSEAGREEN4", <<65, <<"#", "5", "f", "8", "7", "5", "f">>>>>>,
       <<"PALETURQUOISE4", <<66, <<"#", "5", "f", "8", "7", "8", "7">>>>>>,
       <<"STEELBLUE", <<67, <<"#", "5", "f", "8", "7", "a", "f">>>>>>,
       <<"STEELBLUE3", <<68, <<"#", "5", "f", "8", "7", "d", "7">>>>>>,
       <<"CORNFLOWERBLUE", <<69, <<"#", "5", "f", "8", "7", "f", "f">>>>>>,
       <<"CHARTREUSE3", <<70, <<"#", "5", "f", "a", "f", "0", "0">>>>>>,
       <<"DARKSEAGREEN4_1", <<71, <<"#", "5", "f", "a", "f", "5", "f">>>>>>,
       <<"CADETBLUE", <<72, <<"#", "5", "f", "a", "f", "8", "7">>>>>>,
       <<"CADETBLUE_1", <<73, <<"#", "5", "f", "a", "f", "a", "f">>>>>>,
       <<"SKYBLUE3", <<74, <<"#", "5", "f", "a", "f", "d", "7">>>>>>,
       <<"STEELBLUE1", <<75, <<"#", "5", "f", "a", "f", "f", "f">>>>>>,
       <<"CHARTREUSE3_1", <<76, <<"#", "5", "f", "d", "7", "0", "0">>>>>>,
       <<"PALEGREEN3", <<77, <<"#", "5", "f", "d", "7", "5", "f">>>>>>,
       <<"SEAGREEN3", <<78, <<"#", "5", "f", "d", "7", "8", "7">>>>>>,
       <<"AQUAMARINE3", <<79, <<"#", "5", "f", "d", "7", "a", "f">>>>>>,
       <<"MEDIUMTURQUOISE", <<80, <<"#", "5", "f", "d", "7", "d", "7">>>>>>,
       <<"STEELBLUE1_1", <<81, <<"#", "5", "f", "d", "7", "f", "f">>>>>>,
       <<"CHARTREUSE2", <<82, <<"#", "5", "f", "f", "f", "0", "0">>>>>>,
       <<"SEAGREEN2", <<83, <<"#", "5", "f", "f", "f", "5", "f">>>>>>,
       <<"SEAGREEN1", <<84, <<"#", "5", "f", "f", "f", "8", "7">>>>>>,
       <<"SEAGREEN1_1", <<85, <<"#", "5", "f", "f", "f", "a", "f">>>>>>,
       <<"AQUAMARINE1", <<86, <<"#", "5", "f", "f", "f", "d", "7">>>>>>,
       <<"DARKSLATEGRAY2", <<87, <<"#", "5", "f", "f", "f", "f", "f">>>>>>,
       <<"DARKRED_1", <<88, <<"#", "8", "7", "0", "0", "0", "0">>>>>>,
       <<"DEEPPINK4_1", <<89, <<"#", "8", "7", "0", "0", "5", "f">>>>>>,
       <<"DARKMAGENTA", <<90, <<"#", "8", "7", "0", "0", "8", "7">>>>>>,
       <<"DARKMAGENTA_1", <<91, <<"#", "8", "7", "0", "0", "a", "f">>>>>>,
       <<"DARKVIOLET", <<92, <<"#", "8", "7", "0", "0", "d", "7">>>>>>,
       <<"PURPLE_1", <<93, <<"#", "8", "7", "0", "0", "f", "f">>>>>>,
       <<"ORANGE4_1", <<94, <<"#", "8", "7", "5", "f", "0", "0">>>>>>,
       <<"LIGHTPINK4", <<95, <<"#", "8", "7", "5", "f", "5", "f">>>>>>,
       <<"PLUM4", <<96, <<"#", "8", "7", "5", "f", "8", "7">>>>>>,
       <<"MEDIUMPURPLE3", <<97, <<"#", "8", "7", "5", "f", "a", "f">>>>>>,
       <<"MEDIUMPURPLE3_1", <<98, <<"#", "8", "7", "5", "f", "d", "7">>>>>>,
       <<"SLATEBLUE1", <<99, <<"#", "8", "7", "5", "f", "f", "f">>>>>>,
       <<"YELLOW4", <<100, <<"#", "8", "7", "8", "7", "0", "0">>>>>>,
       <<"WHEAT4", <<101, <<"#", "8", "7", "8", "7", "5", "f">>>>>>,
       <<"GREY53", <<102, <<"#", "8", "7", "8", "7", "8", "7">>>>>>,
       <<"LIGHTSLATEGREY", <<103, <<"#", "8", "7", "8", "7", "a", "f">>>>>>,
       <<"MEDIUMPURPLE", <<104, <<"#", "8", "7", "8", "7", "d", "7">>>>>>,
       <<"LIGHTSLATEBLUE", <<105, <<"#", "8", "7", "8", "7", "f", "f">>>>>>,
       <<"YELLOW4_1", <<106, <<"#", "8", "7", "a", "f", "0", "0">>>>>>,
       <<"DARKOLIVEGREEN3", <<107, <<"#", "8", "7", "a", "f", "5", "f">>>>>>,
       <<"DARKSEAGREEN", <<108, <<"#", "8", "7", "a", "f", "8", "7">>>>>>,
       <<"LIGHTSKYBLUE3", <<109, <<"#", "8", "7", "a", "f", "a", "f">>>>>>,
       <<"LIGHTSKYBLUE3_1", <<110, <<"#", "8", "7", "a", "f", "d", "7">>>>>>,
       <<"SKYBLUE2", <<111, <<"#", "8", "7", "a", "f", "f", "f">>>>>>,
       <<"CHARTREUSE2_1", <<112, <<"#", "8", "7", "d", "7", "0", "0">>>>>>,
       <<"DARKOLIVEGREEN3_1", <<113, <<"#", "8", "7", "d", "7", "5", "f">>>>>>,
       <<"PALEGREEN3_1", <<114, <<"#", "8", "7", "d", "7", "8", "7">>>>>>,
       <<"DARKSEAGREEN3", <<115, <<"#", "8", "7", "d", "7", "a", "f">>>>>>,
       <<"DARKSLATEGRAY3", <<116, <<"#", "8", "7", "d", "7", "d", "7">>>>>>,
       <<"SKYBLUE1", <<117, <<"#", "8", "7", "d", "7", "f", "f">>>>>>,
       <<"CHARTREUSE1", <<118, <<"#", "8", "7", "f", "f", "0", "0">>>>>>,
       <<"LIGHTGREEN", <<119, <<"#", "8", "7", "f", "f", "5", "f">>>>>>,
       <<"LIGHTGREEN_1", <<120, <<"#", "8", "7", "f", "f", "8", "7">>>>>>,
       <<"PALEGREEN1", <<121, <<"#", "8", "7", "f", "f", "a", "f">>>>>>,
       <<"AQUAMARINE1_1", <<122, <<"#", "8", "7", "f", "f", "d", "7">>>>>>,
       <<"DARKSLATEGRAY1", <<123, <<"#", "8", "7", "f", "f", "f", "f">>>>>>,
       <<"RED3", <<124, <<"#", "a", "f", "0", "0", "0", "0">>>>>>,
       <<"DEEPPINK4_2", <<125, <<"#", "a", "f", "0", "0", "5", "f">>>>>>,
       <<"MEDIUMVIOLETRED", <<126, <<"#", "a", "f", "0", "0", "8", "7">>>>>>,
       <<"MAGENTA3", <<127, <<"#", "a", "f", "0", "0", "a", "f">>>>>>,
       <<"DARKVIOLET_1", <<128, <<"#", "a", "f", "0", "0", "d", "7">>>>>>,
       <<"PURPLE_2", <<129, <<"#", "a", "f", "0", "0", "f", "f">>>>>>,
       <<"DARKORANGE3", <<130, <<"#", "a", "f", "5", "f", "0", "0">>>>>>,
       <<"INDIANRED", <<131, <<"#", "a", "f", "5", "f", "5", "f">>>>>>,
       <<"HOTPINK3", <<132, <<"#", "a", "f", "5", "f", "8", "7">>>>>>,
       <<"MEDIUMORCHID3", <<133, <<"#", "a", "f", "5", "f", "a", "f">>>>>>,
       <<"MEDIUMORCHID", <<134, <<"#", "a", "f", "5", "f", "d", "7">>>>>>,
       <<"MEDIUMPURPLE2", <<135, <<"#", "a", "f", "5", "f", "f", "f">>>>>>,
       <<"DARKGOLDENROD", <<136, <<"#", "a", "f", "8", "7", "0", "0">>>>>>,
       <<"LIGHTSALMON3", <<137, <<"#", "a", "f", "8", "7", "5", "f">>>>>>,
       <<"ROSYBROWN", <<138, <<"#", "a", "f", "8", "7", "8", "7">>>>>>,
       <<"GREY63", <<139, <<"#", "a", "f", "8", "7", "a", "f">>>>>>,
       <<"MEDIUMPURPLE2_1", <<140, <<"#", "a", "f", "8", "7", "d", "7">>>>>>,
       <<"MEDIUMPURPLE1", <<141, <<"#", "a", "f", "8", "7", "f", "f">>>>>>,
       <<"GOLD3", <<142, <<"#", "a", "f", "a", "f", "0", "0">>>>>>,
       <<"DARKKHAKI", <<143, <<"#", "a", "f", "a", "f", "5", "f">>>>>>,
       <<"NAVAJOWHITE3", <<144, <<"#", "a", "f", "a", "f", "8", "7">>>>>>,
       <<"GREY69", <<145, <<"#", "a", "f", "a", "f", "a", "f">>>>>>,
       <<"LIGHTSTEELBLUE3", <<146, <<"#", "a", "f", "a", "f", "d", "7">>>>>>,
       <<"LIGHTSTEELBLUE", <<147, <<"#", "a", "f", "a", "f", "f", "f">>>>>>,
       <<"YELLOW3", <<148, <<"#", "a", "f", "d", "7", "0", "0">>>>>>,
       <<"DARKOLIVEGREEN3_2", <<149, <<"#", "a", "f", "d", "7", "5", "f">>>>>>,
       <<"DARKSEAGREEN3_1", <<150, <<"#", "a", "f", "d", "7", "8", "7">>>>>>,
       <<"DARKSEAGREEN2", <<151, <<"#", "a", "f", "d", "7", "a", "f">>>>>>,
       <<"LIGHTCYAN3", <<152, <<"#", "a", "f", "d", "7", "d", "7">>>>>>,
       <<"LIGHTSKYBLUE1", <<153, <<"#", "a", "f", "d", "7", "f", "f">>>>>>,
       <<"GREENYELLOW", <<154, <<"#", "a", "f", "f", "f", "0", "0">>>>>>,
       <<"DARKOLIVEGREEN2", <<155, <<"#", "a", "f", "f", "f", "5", "f">>>>>>,
       <<"PALEGREEN1_1", <<156, <<"#", "a", "f", "f", "f", "8", "7">>>>>>,
       <<"DARKSEAGREEN2_1", <<157, <<"#", "a", "f", "f", "f", "a", "f">>>>>>,
       <<"DARKSEAGREEN1", <<158, <<"#", "a", "f", "f", "f", "d", "7">>>>>>,
       <<"PALETURQUOISE1", <<159, <<"#", "a", "f", "f", "f", "f", "f">>>>>>,
       <<"RED3_1", <<160, <<"#", "d", "7", "0", "0", "0", "0">>>>>>,
       <<"DEEPPINK3", <<161, <<"#", "d", "7", "0", "0", "5", "f">>>>>>,
       <<"DEEPPINK3_1", <<162, <<"#", "d", "7", "0", "0", "8", "7">>>>>>,
       <<"MAGENTA3_1", <<163, <<"#", "d", "7", "0", "0", "a", "f">>>>>>,
       <<"MAGENTA3_2", <<164, <<"#", "d", "7", "0", "0", "d", "7">>>>>>,
       <<"MAGENTA2", <<165, <<"#", "d", "7", "0", "0", "f", "f">>>>>>,
       <<"DARKORANGE3_1", <<166, <<"#", "d", "7", "5", "f", "0", "0">>>>>>,
       <<"INDIANRED_1", <<167, <<"#", "d", "7", "5", "f", "5", "f">>>>>>,
       <<"HOTPINK3_1", <<168, <<"#", "d", "7", "5", "f", "8", "7">>>>>>,
       <<"HOTPINK2", <<169, <<"#", "d", "7", "5", "f", "a", "f">>>>>>,
       <<"ORCHID", <<170, <<"#", "d", "7", "5", "f", "d", "7">>>>>>,
       <<"MEDIUMORCHID1", <<171, <<"#", "d", "7", "5", "f", "f", "f">>>>>>,
       <<"ORANGE3", <<172, <<"#", "d", "7", "8", "7", "0", "0">>>>>>,
       <<"LIGHTSALMON3_1", <<173, <<"#", "d", "7", "8", "7", "5", "f">>>>>>,
       <<"LIGHTPINK3", <<174, <<"#", "d", "7", "8", "7", "8", "7">>>>>>,
       <<"PINK3", <<175, <<"#", "d", "7", "8", "7", "a", "f">>>>>>,
       <<"PLUM3", <<176, <<"#", "d", "7", "8", "7", "d", "7">>>>>>,
       <<"VIOLET", <<177, <<"#", "d", "7", "8", "7", "f", "f">>>>>>,
       <<"GOLD3_1", <<178, <<"#", "d", "7", "a", "f", "0", "0">>>>>>,
       <<"LIGHTGOLDENROD3", <<179, <<"#", "d", "7", "a", "f", "5", "f">>>>>>,
       <<"TAN", <<180, <<"#", "d", "7", "a", "f", "8", "7">>>>>>,
       <<"MISTYROSE3", <<181, <<"#", "d", "7", "a", "f", "a", "f">>>>>>,
       <<"THISTLE3", <<182, <<"#", "d", "7", "a", "f", "d", "7">>>>>>,
       <<"PLUM2", <<183, <<"#", "d", "7", "a", "f", "f", "f">>>>>>,
       <<"YELLOW3_1", <<184, <<"#", "d", "7", "d", "7", "0", "0">>>>>>,
       <<"KHAKI3", <<185, <<"#", "d", "7", "d", "7", "5", "f">>>>>>,
       <<"LIGHTGOLDENROD2", <<186, <<"#", "d", "7", "d", "7", "8", "7">>>>>>,
       <<"LIGHTYELLOW3", <<187, <<"#", "d", "7", "d", "7", "a", "f">>>>>>,
       <<"GREY84", <<188, <<"#", "d", "7", "d", "7", "d", "7">>>>>>,
       <<"LIGHTSTEELBLUE1", <<189, <<"#", "d", "7", "d", "7", "f", "f">>>>>>,
       <<"YELLOW2", <<190, <<"#", "d", "7", "f", "f", "0", "0">>>>>>,
       <<"DARKOLIVEGREEN1", <<191, <<"#", "d", "7", "f", "f", "5", "f">>>>>>,
       <<"DARKOLIVEGREEN1_1", <<192, <<"#", "d", "7", "f", "f", "8", "7">>>>>>,
       <<"DARKSEAGREEN1_1", <<193, <<"#", "d", "7", "f", "f", "a", "f">>>>>>,
       <<"HONEYDEW2", <<194, <<"#", "d", "7", "f", "f", "d", "7">>>>>>,
       <<"LIGHTCYAN1", <<195, <<"#", "d", "7", "f", "f", "f", "f">>>>>>,
       <<"RED1", <<196, <<"#", "f", "f", "0", "0", "0", "0">>>>>>,
       <<"DEEPPINK2", <<197, <<"#", "f", "f", "0", "0", "5", "f">>>>>>,
       <<"DEEPPINK1", <<198, <<"#", "f", "f", "0", "0", "8", "7">>>>>>,
       <<"DEEPPINK1_1", <<199, <<"#", "f", "f", "0", "0", "a", "f">>>>>>,
       <<"MAGENTA2_1", <<200, <<"#", "f", "f", "0", "0", "d", "7">>>>>>,
       <<"MAGENTA1", <<201, <<"#", "f", "f", "0", "0", "f", "f">>>>>>,
       <<"ORANGERED1", <<202, <<"#", "f", "f", "5", "f", "0", "0">>>>>>,
       <<"INDIANRED1", <<203, <<"#", "f", "f", "5", "f", "5", "f">>>>>>,
       <<"INDIANRED1_1", <<204, <<"#", "f", "f", "5", "f", "8", "7">>>>>>,
       <<"HOTPINK", <<205, <<"#", "f", "f", "5", "f", "a", "f">>>>>>,
       <<"HOTPINK_1", <<206, <<"#", "f", "f", "5", "f", "d", "7">>>>>>,
       <<"MEDIUMORCHID1_1", <<207, <<"#", "f", "f", "5", "f", "f", "f">>>>>>,
       <<"DARKORANGE", <<208, <<"#", "f", "f", "8", "7", "0", "0">>>>>>,
       <<"SALMON1", <<209, <<"#", "f", "f", "8", "7", "5", "f">>>>>>,
       <<"LIGHTCORAL", <<210, <<"#", "f", "f", "8", "7", "8", "7">>>>>>,
       <<"PALEVIOLETRED1", <<211, <<"#", "f", "f", "8", "7", "a", "f">>>>>>,
       <<"ORCHID2", <<212, <<"#", "f", "f", "8", "7", "d", "7">>>>>>,
       <<"ORCHID1", <<213, <<"#", "f", "f", "8", "7", "f", "f">>>>>>,
       <<"ORANGE1", <<214, <<"#", "f", "f", "a", "f", "0", "0">>>>>>,
       <<"SANDYBROWN", <<215, <<"#", "f", "f", "a", "f", "5", "f">>>>>>,
       <<"LIGHTSALMON1", <<216, <<"#", "f", "f", "a", "f", "8", "7">>>>>>,
       <<"LIGHTPINK1", <<217, <<"#", "f", "f", "a", "f", "a", "f">>>>>>,
       <<"PINK1", <<218, <<"#", "f", "f", "a", "f", "d", "7">>>>>>,
       <<"PLUM1", <<219, <<"#", "f", "f", "a", "f", "f", "f">>>>>>,
       <<"GOLD1", <<220, <<"#", "f", "f", "d", "7", "0", "0">>>>>>,
       <<"LIGHTGOLDENROD2_1", <<221, <<"#", "f", "f", "d", "7", "5", "f">>>>>>,
       <<"LIGHTGOLDENROD2_2", <<222, <<"#", "f", "f", "d", "7", "8", "7">>>>>>,
       <<"NAVAJOWHITE1", <<223, <<"#", "f", "f", "d", "7", "a", "f">>>>>>,
       <<"MISTYROSE1", <<224, <<"#", "f", "f", "d", "7", "d", "7">>>>>>,
       <<"THISTLE1", <<225, <<"#", "f", "f", "d", "7", "f", "f">>>>>>,
       <<"YELLOW1", <<226, <<"#", "f", "f", "f", "f", "0", "0">>>>>>,
       <<"LIGHTGOLDENROD1", <<227, <<"#", "f", "f", "f", "f", "5", "f">>>>>>,
       <<"KHAKI1", <<228, <<"#", "f", "f", "f", "f", "8", "7">>>>>>,
       <<"WHEAT1", <<229, <<"#", "f", "f", "f", "f", "a", "f">>>>>>,
       <<"CORNSILK1", <<230, <<"#", "f", "f", "f", "f", "d", "7">>>>>>,
       <<"GREY100", <<231, <<"#", "f", "f", "f", "f", "f", "f">>>>>>,
       <<"GREY3", <<232, <<"#", "0", "8", "0", "8", "0", "8">>>>>>,
       <<"GREY7", <<233, <<"#", "1", "2", "1", "2", "1", "2">>>>>>,
       <<"GREY11", <<234, <<"#", "1", "c", "1", "c", "1", "c">>>>>>,
       <<"GREY15", <<235, <<"#", "2", "6", "2", "6", "2", "6">>>>>>,
       <<"GREY19", <<236, <<"#", "3", "0", "3", "0", "3", "0">>>>>>,
       <<"GREY23", <<237, <<"#", "3", "a", "3", "a", "3", "a">>>>>>,
       <<"GREY27", <<238, <<"#", "4", "4", "4", "4", "4", "4">>>>>>,
       <<"GREY30", <<239, <<"#", "4", "e", "4", "e", "4", "e">>>>>>,
       <<"GREY35", <<240, <<"#", "5", "8", "5", "8", "5", "8">>>>>>,
       <<"GREY39", <<241, <<"#", "6", "2", "6", "2", "6", "2">>>>>>,
       <<"GREY42", <<242, <<"#", "6", "c", "6", "c", "6", "c">>>>>>,
       <<"GREY46", <<243, <<"#", "7", "6", "7", "6", "7", "6">>>>>>,
       <<"GREY50", <<244, <<"#", "8", "0", "8", "0", "8", "0">>>>>>,
       <<"GREY54", <<245, <<"#", "8", "a", "8", "a", "8", "a">>>>>>,
       <<"GREY58", <<246, <<"#", "9", "4", "9", "4", "9", "4">>>>>>,
       <<"GREY62", <<247, <<"#", "9", "e", "9", "e", "9", "e">>>>>>,
       <<"GREY66", <<248, <<"#", "a", "8", "a", "8", "a", "8">>>>>>,
       <<"GREY70", <<249, <<"#", "b", "2", "b", "2", "b", "2">>>>>>,
       <<"GREY74", <<250, <<"#", "b", "c", "b", "c", "b", "c">>>>>>,
       <<"GREY78", <<251, <<"#", "c", "6", "c", "6", "c", "6">>>>>>,
       <<"GREY82", <<252, <<"#", "d", "0", "d", "0", "d", "0">>>>>>,
       <<"GREY85", <<253, <<"#", "d", "a", "d", "a", "d", "a">>>>>>,
       <<"GREY89", <<254, <<"#", "e", "4", "e", "4", "e", "4">>>>>>,
       <<"GREY93", <<255, <<"#", "e", "e", "e", "e", "e", "e">>>>>>
    >>

DEFAULT_DIFFERENTIATED_COLOR_NAMES ==
    <<
       "BLUE",
       "CADETBLUE",
       "CHARTREUSE1",
       "CORNFLOWERBLUE",
       "CYAN1",
       "DARKGOLDENROD",
       "DARKORANGE",
       "DEEPPINK1",
       "GOLD1",
       "DARKKHAKI",
       "HONEYDEW2",
       "MEDIUMVIOLETRED",
       "PURPLE",
       "WHEAT1",
       "YELLOW2",
       "ROSYBROWN",
       "MAROON",
       "LIGHTCYAN3",
       "HOTPINK",
       "GREY82",
       "LIGHTCORAL",
       "LIGHTSEAGREEN",
       "MEDIUMSPRINGGREEN",
       "OLIVE",
       "DODGERBLUE2",
       "ORANGERED1",
       "PALETURQUOISE1",
       "THISTLE3",
       "DARKTURQUOISE",
       "GREEN",
       "LIGHTGOLDENROD1",
       "LIGHTSALMON1",
       "PINK1",
       "NAVAJOWHITE1",
       "LIGHTSLATEBLUE",
       "LIGHTCYAN1",
       "GOLD3",
       "INDIANRED",
       "PURPLE",
       "SALMON1"
    >>

HexDigits == <<"0", "1", "2", "3", "4", "5", "6", "7",
               "8", "9", "a", "b", "c", "d", "e", "f">>

DigitValue(ch) == (CHOOSE k \in 1..Len(HexDigits) : HexDigits[k] = ch) - 1

\* int(s, base): the digits of s read from the most significant one
RECURSIVE int(_, _)
int(s, base) ==
    IF s = <<>> THEN 0
    ELSE int(SubSeq(s, 1, Len(s) - 1), base) * base + DigitValue(s[Len(s)])

\* CSI + cmdnum + ';5;' + str(code) + 'm': the characters differ exactly
\* with the command number and the code.
code_to_chars(code, is_background) ==
    <<IF is_background THEN "CMDNUM_BACKGROUND" ELSE "CMDNUM_FOREGROUND",
      code>>

\* XtermColor.__new__, the object being the id-th one allocated
XtermColor(id, code, rgb, name, is_background) ==
    [id |-> id, chars |-> code_to_chars(code, is_background),
     code |-> code, rgb |-> rgb, name |-> name,
     is_background |-> is_background]

\* _XtermColorSwatch.__init__: the slot holds a reference to the colour
XtermColorSwatch(id, c) == [id |-> id, color |-> c.id]

\* a == b on _XtermColorSwatch objects: the class defines no __eq__, so
\* object.__eq__ compares identities.
SwatchEq(a, b) == a.id = b.id

\* x is y
Is(x, y) == x.id = y.id

\* (self.rgb >> 24) & 0xFF
r(c) == (c.rgb \div 2^24) % 256
\* (self.rgb >> 16) & 0xFF
g(c) == (c.rgb \div 2^16) % 256
\* self.rgb & 0xFF
b(c) == c.rgb % 256

\* sqrt(0.299 red^2 + 0.587 green^2 + 0.114 blue^2), with red = r / 255.0
\* and so on, compared with 0.5: both sides squared and scaled by
\* 1000 * 255^2.  No colour of the table is near enough to the threshold
\* for the rounding of the floats to matter.
BrightnessScaled(c) == 299 * r(c)^2 + 587 * g(c)^2 + 114 * b(c)^2
is_bright(c) == BrightnessScaled(c) * 4 >= 1000 * 255^2
is_dark(c) == BrightnessScaled(c) * 4 < 1000 * 255^2

\* XtermFore._init_color / XtermBack._init_color
init_color(k, id, code, rgb, name) ==
    XtermColor(id, code, rgb, name, k = "XtermBack")

\* d[key] = value on a dict
Put(d, key, value) ==
    [x \in DOMAIN d \cup {key} |-> IF x = key THEN value ELSE d[x]]

\* A faulty variant of InitItem: the colour filed under its code is a
\* second object, constructed apart from the one filed under its name.
InitItemTwoObjects(s, k, id, item) ==
    LET name == item[1]
        code == item[2][1]
        rgb == int(Tail(item[2][2]), 16)
        c == init_color(k, id, code, rgb, name)
        c2 == init_color(k, 0, code, rgb, name)
    IN [s EXCEPT !.attributes = Put(@, name, c),
                 !.by_code = Put(@, code, c2),
                 !.all_colors = Put(@, name, c),
                 !.bright_colors = IF is_bright(c) THEN Put(@, name, c) ELSE @,
                 !.dark_colors = IF is_bright(c) THEN @ ELSE Put(@, name, c)]

\* A faulty variant of InitItem: every colour is filed as dark, the bright
\* ones as bright too.
InitItemAllDark(s, k, id, item) ==
    LET name == item[1]
        code == item[2][1]
        rgb == int(Tail(item[2][2]), 16)
        c == init_color(k, id, code, rgb, name)
    IN [s EXCEPT !.attributes = Put(@, name, c),
                 !.by_code = Put(@, code, c),
                 !.all_colors = Put(@, name, c),
                 !.bright_colors = IF is_bright(c) THEN Put(@, name, c) ELSE @,
                 !.dark_colors = Put(@, name, c)]

\* The body of the for loop of XtermCodes.__init__ for one item of the
\* table, the colour being the id-th object allocated.
InitItem(s, k, id, item) ==
    LET name == item[1]
        code == item[2][1]
        rgb == int(Tail(item[2][2]), 16)
        c == init_color(k, id, code, rgb, name)
    IN [s EXCEPT !.attributes = Put(@, name, c),
                 !.by_code = Put(@, code, c),
                 !.all_colors = Put(@, name, c),
                 !.bright_colors = IF is_bright(c) THEN Put(@, name, c) ELSE @,
                 !.dark_colors = IF is_bright(c) THEN @ ELSE Put(@, name, c)]

\* getattr(self, name)
getattr(s, name) == s.attributes[name]

\* XtermCodes.__getitem__; an item is <<"str", name>> or <<"int", code>>
getitem(s, item) ==
    IF item[1] = "str" THEN s.all_colors[item[2]] ELSE s.by_code[item[2]]

\* tuple(getattr(self, name) for name in DEFAULT_DIFFERENTIATED_COLOR_NAMES)
DifferentiatedColors(s) ==
    [k \in 1..Len(DEFAULT_DIFFERENTIATED_COLOR_NAMES) |->
        getattr(s, DEFAULT_DIFFERENTIATED_COLOR_NAMES[k])]

\* utils.py is not called while colors.py is imported and used.
FindIdle ==
    /\ entry = Find /\ is_sequence = TRUE /\ consumed = FALSE
    /\ HAS_COLORMATH = TRUE
    /\ colors = <<>> /\ delta_e = <<>>
    /\ n = 0 /\ min_dist = NegInf /\ dist_mat = <<>>
    /\ InitLocals

\* Fore256 = XtermFore() or Back256 = XtermBack() is about to run.
CodesInit ==
    /\ FindIdle
    /\ cls \in {"XtermFore", "XtermBack"}
    /\ CodesFresh

\* One round of the for loop of XtermCodes.__init__
InitLoop ==
    /\ step = "init" /\ position < Len(XTERM_256_COLOR_MAP)
    /\ self' = InitItem(self, cls, objects + 1,
                        XTERM_256_COLOR_MAP[position + 1])
    /\ objects' = objects + 1
    /\ position' = position + 1
    /\ UNCHANGED <<cls, color, swatch, expected, actual, step>>
    /\ UNCHANGED findVars

\* The table is exhausted: self.differentiated_colors = tuple(...)
InitFinish ==
    /\ step = "init" /\ position = Len(XTERM_256_COLOR_MAP)
    /\ self' = [self EXCEPT !.differentiated_colors = DifferentiatedColors(self)]
    /\ step' = "constructed"
    /\ UNCHANGED <<cls, position, objects, color, swatch, expected, actual>>
    /\ UNCHANGED findVars

\* color = codes.NAME, for any name of the table
Look ==
    /\ step = "constructed"
    /\ \E name \in DOMAIN self.attributes : color' = <<getattr(self, name)>>
    /\ step' = "look"
    /\ UNCHANGED <<cls, self, position, objects, swatch, expected, actual>>
    /\ UNCHANGED findVars

\* expected = _XtermColorSwatch(color)
NewSwatch ==
    /\ step = "look" /\ expected = <<>>
    /\ expected' = <<XtermColorSwatch(objects + 1, color[1])>>
    /\ objects' = objects + 1
    /\ UNCHANGED <<cls, self, position, color, swatch, actual, step>>
    /\ UNCHANGED findVars

\* actual = color.swatch, a cached_property: the first read constructs the
\* swatch and keeps it, later reads return the one kept.
ReadSwatch ==
    /\ step = "look"
    /\ swatch' = IF swatch = <<>>
                 THEN <<XtermColorSwatch(objects + 1, color[1])>>
                 ELSE swatch
    /\ objects' = IF swatch = <<>> THEN objects + 1 ELSE objects
    /\ actual' = swatch'
    /\ UNCHANGED <<cls, self, position, color, expected, step>>
    /\ UNCHANGED findVars

CodesNext ==
    \/ InitLoop
    \/ InitFinish
    \/ Look
    \/ NewSwatch
    \/ ReadSwatch

CodesSpec == CodesInit /\ [][CodesNext]_vars

\* ------------------------------------------------------- colors.py: claims
\* C15: for every colour, r, g and b are the bytes of rgb = 0xRRGGBB:
\* r = bits 16-23, g = bits 8-15, b = bits 0-7.
C15_ByteComponents ==
    \A name \in DOMAIN self.all_colors :
        LET c == self.all_colors[name] IN
            /\ r(c) = (c.rgb \div 2^16) % 2^8
            /\ g(c) = (c.rgb \div 2^8) % 2^8
            /\ b(c) = c.rgb % 2^8

\* C16: on a constructed Fore256 or Back256, for every name of the table,
\* codes.NAME, codes['NAME'] and codes[c] are one and the same colour, whose
\* name is NAME and whose code is c.
C16_Lookups ==
    step # "init" =>
        \A k \in 1..Len(XTERM_256_COLOR_MAP) :
            LET NAME == XTERM_256_COLOR_MAP[k][1]
                c == XTERM_256_COLOR_MAP[k][2][1]
                x == getattr(self, NAME)
            IN /\ Is(x, getitem(self, <<"str", NAME>>))
               /\ Is(x, getitem(self, <<"int", c>>))
               /\ x.name = NAME
               /\ x.code = c

\* Back256 is constructed and Back256[204] is INDIANRED1_1.
C16_Witness ==
    /\ step = "constructed" /\ cls = "XtermBack"
    /\ getitem(self, <<"int", 204>>).name = "INDIANRED1_1"
    /\ Is(getitem(self, <<"int", 204>>), getattr(self, "INDIANRED1_1"))

\* C17: color.swatch == _XtermColorSwatch(color), for every colour.
C17_SwatchEqual ==
    (expected # <<>> /\ actual # <<>>) => SwatchEq(expected[1], actual[1])

\* C22: every colour is exactly one of bright and dark, and on a constructed
\* instance every name of all_colors is in exactly one of bright_colors and
\* dark_colors, in bright_colors exactly when its colour is_bright.
C22_BrightDarkPartition ==
    /\ \A name \in DOMAIN self.all_colors :
            is_bright(self.all_colors[name]) # is_dark(self.all_colors[name])
    /\ step # "init" =>
        /\ DOMAIN self.bright_colors \cup DOMAIN self.dark_colors
                = DOMAIN self.all_colors
        /\ DOMAIN self.bright_colors \cap DOMAIN self.dark_colors = {}
        /\ \A name \in DOMAIN self.all_colors :
            LET c == self.all_colors[name] IN
                /\ name \in DOMAIN self.bright_colors <=> is_bright(c)
                /\ is_bright(c) => Is(self.bright_colors[name], c)
                /\ is_dark(c) => Is(self.dark_colors[name], c)

\* The instance is constructed, with colours of both kinds: INDIANRED1_1 is
\* bright and BLACK is dark.
C22_Witness ==
    /\ step = "constructed"
    /\ "INDIANRED1_1" \in DOMAIN self.bright_colors
    /\ "BLACK" \in DOMAIN self.dark_colors
    /\ Cardinality(DOMAIN self.all_colors) = Len(XTERM_256_COLOR_MAP)

\* C23: on a constructed instance every entry of differentiated_colors is a
\* colour of all_colors and no colour appears in it more than once.
C23_ValidPalette ==
    step # "init" =>
        /\ \A k \in DOMAIN self.differentiated_colors :
              \E name \in DOMAIN self.all_colors :
                  Is(self.differentiated_colors[k], self.all_colors[name])
        /\ \A i, j \in DOMAIN self.differentiated_colors :
              i # j => ~Is(self.differentiated_colors[i],
                          self.differentiated_colors[j])

====
